---- MODULE Spec2Model ----
(***************************************************************************)
(* Model of js-sandbox-mcp-server (src/src/index.ts): the CallTool handler *)
(* of JSSandboxServer and JSSandbox.executeCode, with the collaborators    *)
(* they call (acorn's parse, vm2's NodeVM, winston's logger) as inputs.    *)
(*                                                                         *)
(* Node runs a callback to completion: the position of the one callback    *)
(* that is running is `running`; a request is suspended only at the await  *)
(* of line 102.  Every step of a synchronous segment is an action guarded  *)
(* by running = r, so no other request can interleave with it.             *)
(***************************************************************************)
EXTENDS Integers, Sequences, FiniteSets, TLC

\* Number of execute_js requests the client has in flight.
NumRequests == 2

Requests == 1..NumRequests

------------------------------------------------------------------------------
\* Program constants (class JSSandbox, lines 32-42).

DEFAULT_TIMEOUT == 5000

DEFAULT_MEMORY == 50 * 1024 * 1024

FORBIDDEN_PATTERNS ==
  <<"process", "require", "__dirname", "__filename", "global", "Buffer", "eval">>

\* The bounds the tool's inputSchema declares (lines 179-190).
SchemaMinTimeout == 100

SchemaMaxTimeout == 30000

SchemaMinMemory == 1024 * 1024

SchemaMaxMemory == 100 * 1024 * 1024

------------------------------------------------------------------------------
\* JavaScript values of the request arguments: a number, or anything else.

Undefined == [type |-> "undefined", val |-> 0]

Num(n) == [type |-> "number", val |-> n]

NotANumber == [type |-> "string", val |-> 0]

\* One console.log argument: a string or a number.
S(s) == [num |-> FALSE, s |-> s, n |-> 0]

N(n) == [num |-> TRUE, s |-> "", n |-> n]

\* One call of a console method by the script; vm2 (console: 'redirect')
\* emits it to the host as the event 'console.<method>'.
W(method, args) == [method |-> method, args |-> args]

\* A value thrown by the script: an Error object, or null.
ErrorObj(m) == [kind |-> "Error", code |-> "", message |-> m]

ThrownNull == [kind |-> "null", code |-> "", message |-> ""]

NoThrow == [kind |-> "none", code |-> "", message |-> ""]

\* new McpError(code, message) of the MCP SDK; message is the text given to
\* the constructor.
McpError(code, message) == [kind |-> "McpError", code |-> code, message |-> message]

------------------------------------------------------------------------------
\* The scripts the client submits.  text is the code string; syntaxError is
\* acorn's verdict on it ("" when it parses); writes are the console calls
\* the script makes synchronously, late the ones it makes from a timer after
\* the run returned; end is how the synchronous evaluation ends.

Program(text, syntaxError, writes, late, end, thrown) ==
  [text |-> text, syntaxError |-> syntaxError, writes |-> writes,
   late |-> late, end |-> end, thrown |-> thrown]

P_ok == Program("1+1", "", <<>>, <<>>, "returns", NoThrow)

P_log == Program("console.log('a');console.log('b',2)", "",
                 <<W("log", <<S("a")>>), W("log", <<S("b"), N(2)>>)>>, <<>>,
                 "returns", NoThrow)

P_late == Program("console.log('c');setTimeout(()=>console.log('z'),0)", "",
                  <<W("log", <<S("c")>>)>>, <<W("log", <<S("z")>>)>>, "returns", NoThrow)

P_err == Program("console.log('a');console.error('e')", "",
                 <<W("log", <<S("a")>>), W("error", <<S("e")>>)>>, <<>>,
                 "returns", NoThrow)

P_req == Program("require('process')", "", <<>>, <<>>, "returns", NoThrow)

P_syn == Program("1+", "Unexpected token (1:2)", <<>>, <<>>, "returns", NoThrow)

P_throw == Program("console.log('a');throw new Error('x')", "",
                   <<W("log", <<S("a")>>)>>, <<>>, "throws", ErrorObj("x"))

P_null == Program("throw null", "", <<>>, <<>>, "throws", ThrownNull)

P_spin == Program("console.log('a');while(true){}", "",
                  <<W("log", <<S("a")>>)>>, <<>>, "spins", NoThrow)

Programs == {P_ok, P_log, P_late, P_err, P_req, P_syn, P_throw, P_null, P_spin}

\* A tools/call request: request.params.name and request.params.arguments.
ToolRequest(name, codeIsString, code, timeout, memory) ==
  [name |-> name, codeIsString |-> codeIsString, code |-> code,
   timeout |-> timeout, memory |-> memory]

NoRequest == ToolRequest("", FALSE, P_ok, Undefined, Undefined)

ToolRequests ==
  {ToolRequest("execute_js", TRUE, p, Undefined, Undefined) : p \in Programs}
  \cup {ToolRequest("execute_js", TRUE, P_log, Num(t), Undefined) :
          t \in {SchemaMinTimeout - 50, SchemaMaxTimeout + 1}}
  \cup {ToolRequest("execute_js", TRUE, P_log, Undefined, Num(m)) :
          m \in {SchemaMinMemory - 1, SchemaMaxMemory + 1}}
  \cup {ToolRequest("execute_js", TRUE, P_log, Num(SchemaMinTimeout), Num(SchemaMinMemory)),
        ToolRequest("execute_js", TRUE, P_spin, Num(SchemaMinTimeout), Undefined),
        ToolRequest("execute_js", TRUE, P_ok, NotANumber, Undefined),
        ToolRequest("list_files", TRUE, P_ok, Undefined, Undefined),
        ToolRequest("execute_js", FALSE, P_ok, Undefined, Undefined)}

------------------------------------------------------------------------------
VARIABLES
  pc,            \* position of each request's handler
  req,           \* the request as received
  timeout,       \* executeCode's local timeout (line 81)
  memory,        \* executeCode's local memory (line 82)
  consoleOutput, \* executeCode's local consoleOutput (line 83)
  vm,            \* the NodeVM options of each sandbox created (line 90)
  hooked,        \* requests whose 'console.log' listener is registered (line 93)
  started,       \* requests whose startTime was read (line 98)
  measured,      \* requests whose executionTime was computed (lines 104-105)
  thrown,        \* the value caught at line 120
  outcome,       \* what the handler's promise settled with
  running,       \* the request whose callback the event loop is running, or 0
  timers,        \* console calls each script still has in pending timers
  stages,        \* history: the stages each request went through
  runs,          \* history: number of vm.run calls per request
  emitted,       \* history: the console calls each script made
  logFault       \* history: requests one of whose logger calls failed

vars == <<pc, req, timeout, memory, consoleOutput, vm, hooked, started, measured,
          thrown, outcome, running, timers, stages, runs, emitted, logFault>>

------------------------------------------------------------------------------
\* Pure functions.

\* String.prototype.includes (line 51).
Includes(code, pattern) ==
  \E i \in 1..(Len(code) - Len(pattern) + 1) :
    SubSeq(code, i, i + Len(pattern) - 1) = pattern

\* The for loop of lines 50-54: the index of the first pattern, in list
\* order, that the code includes; 0 when the loop ends without throwing.
FirstForbidden(code) ==
  LET hits == {i \in 1..Len(FORBIDDEN_PATTERNS) : Includes(code, FORBIDDEN_PATTERNS[i])}
  IN  IF hits = {} THEN 0 ELSE CHOOSE i \in hits : \A j \in hits : i <= j

\* Mutant of validateCode: the forbidden-pattern loop is skipped.
ValidateCodeParseOnly(code) ==
  IF code.syntaxError # ""
    THEN McpError("InvalidRequest", "Erreur de validation du code: " \o code.syntaxError)
    ELSE NoThrow

\* validateCode (lines 44-61): the McpError it throws, or NoThrow.
ValidateCode(code) ==
  IF code.syntaxError # ""
    THEN McpError("InvalidRequest", "Erreur de validation du code: " \o code.syntaxError)
    ELSE IF FirstForbidden(code.text) # 0
      THEN McpError("InvalidRequest",
                    "Erreur de validation du code: Usage interdit de '"
                      \o FORBIDDEN_PATTERNS[FirstForbidden(code.text)] \o "'")
      ELSE NoThrow

\* createSandbox (lines 63-73): the options given to new NodeVM.  The memory
\* parameter is not used.
CreateSandbox(t, m) ==
  [console |-> "redirect", sandbox |-> {}, require |-> FALSE, timeout |-> t,
   wrapper |-> "none", eval |-> FALSE, wasm |-> FALSE]

\* typeof x === 'number' ? x : undefined (lines 217-218).
NumberOrUndefined(x) == IF x.type = "number" THEN x ELSE Undefined

\* x ?? d (lines 81-82).
Coalesce(x, d) == IF x.type = "undefined" THEN d ELSE x.val

\* String(arg) (line 94).
ArgString(arg) == IF arg.num THEN ToString(arg.n) ELSE arg.s

\* args.map(arg => String(arg)).join(' ') (line 94).
RECURSIVE JoinArgs(_)
JoinArgs(args) ==
  IF args = <<>> THEN ""
  ELSE IF Len(args) = 1 THEN ArgString(args[1])
  ELSE ArgString(args[1]) \o " " \o JoinArgs(Tail(args))

\* Mutant of the console hook: the line goes to the front of the buffer.
ConsoleLogHookUnshift(bufs, r, args) ==
  [bufs EXCEPT ![r] = <<JoinArgs(args)>> \o @]

\* Mutant of the console hook: consoleOutput is one array shared by the calls.
ConsoleLogHookShared(bufs, r, args) ==
  [q \in DOMAIN bufs |-> Append(bufs[q], JoinArgs(args))]

\* The 'console.log' listener of lines 93-95: pushes onto the consoleOutput
\* of the call that registered it.
ConsoleLogHook(bufs, r, args) ==
  [bufs EXCEPT ![r] = Append(@, JoinArgs(args))]

\* The host's side of one console call of the script of request r: the
\* event 'console.<method>' reaches the listeners registered for that name,
\* and the only listener is the one of line 93, for 'console.log'.
Emit(bufs, listening, r, w) ==
  IF w.method = "log" /\ r \in listening THEN ConsoleLogHook(bufs, r, w.args) ELSE bufs

\* vm.run emitting the events of the script's synchronous console calls, in
\* the order of the calls.
RECURSIVE EmitAll(_, _, _, _)
EmitAll(bufs, listening, r, writes) ==
  IF writes = <<>> THEN bufs
  ELSE EmitAll(Emit(bufs, listening, r, Head(writes)), listening, r, Tail(writes))

\* What the handler's promise settles with.
NoOutcome == [kind |-> "none", code |-> "", message |-> "", console |-> <<>>]

\* The success response (lines 114-119, serialised at lines 223-230).
Success(console) == [kind |-> "success", code |-> "", message |-> "", console |-> console]

\* A rejection with an McpError.
Typed(e) == [kind |-> "McpError", code |-> e.code, message |-> e.message, console |-> <<>>]

\* A rejection with any other exception.
Raw(name) == [kind |-> "raw", code |-> "", message |-> name, console |-> <<>>]

------------------------------------------------------------------------------
Init ==
  /\ pc = [r \in Requests |-> "idle"]
  /\ req = [r \in Requests |-> NoRequest]
  /\ timeout = [r \in Requests |-> 0]
  /\ memory = [r \in Requests |-> 0]
  /\ consoleOutput = [r \in Requests |-> <<>>]
  /\ vm = <<>>
  /\ hooked = {}
  /\ started = {}
  /\ measured = {}
  /\ thrown = [r \in Requests |-> NoThrow]
  /\ outcome = [r \in Requests |-> NoOutcome]
  /\ running = 0
  /\ timers = [r \in Requests |-> <<>>]
  /\ stages = [r \in Requests |-> <<>>]
  /\ runs = [r \in Requests |-> 0]
  /\ emitted = [r \in Requests |-> <<>>]
  /\ logFault = {}

\* The CallTool handler up to the call of validateCode (lines 199-221, 81-85).
CallTool(r, q) ==
  /\ pc[r] = "idle"
  /\ running = 0
  /\ req' = [req EXCEPT ![r] = q]
  /\ IF q.name # "execute_js"
       THEN /\ outcome' = [outcome EXCEPT ![r] =
                 Typed(McpError("MethodNotFound", "Outil inconnu: " \o q.name))]
            /\ pc' = [pc EXCEPT ![r] = "done"]
            /\ stages' = [stages EXCEPT ![r] = <<"Received", "Rejected">>]
            /\ UNCHANGED <<timeout, memory, running>>
       ELSE IF ~q.codeIsString
       THEN /\ outcome' = [outcome EXCEPT ![r] =
                 Typed(McpError("InvalidRequest",
                   "Le paramètre \"code\" est requis et doit être une chaîne de caractères"))]
            /\ pc' = [pc EXCEPT ![r] = "done"]
            /\ stages' = [stages EXCEPT ![r] = <<"Received", "Rejected">>]
            /\ UNCHANGED <<timeout, memory, running>>
       ELSE /\ timeout' = [timeout EXCEPT ![r] =
                 Coalesce(NumberOrUndefined(q.timeout), DEFAULT_TIMEOUT)]
            /\ memory' = [memory EXCEPT ![r] =
                 Coalesce(NumberOrUndefined(q.memory), DEFAULT_MEMORY)]
            /\ pc' = [pc EXCEPT ![r] = "validating"]
            /\ running' = r
            /\ stages' = [stages EXCEPT ![r] = <<"Received", "Validating">>]
            /\ UNCHANGED outcome
  /\ consoleOutput' = [consoleOutput EXCEPT ![r] = <<>>]
  /\ UNCHANGED <<vm, hooked, started, measured, thrown, timers, runs, emitted, logFault>>

\* this.validateCode(args.code) (line 87).
Validate(r) ==
  /\ pc[r] = "validating"
  /\ running = r
  /\ LET e == ValidateCode(req[r].code) IN
       IF e = NoThrow
         THEN /\ pc' = [pc EXCEPT ![r] = "building"]
              /\ stages' = [stages EXCEPT ![r] = Append(@, "BuildingContext")]
              /\ UNCHANGED thrown
         ELSE /\ pc' = [pc EXCEPT ![r] = "catch"]
              /\ thrown' = [thrown EXCEPT ![r] = e]
              /\ UNCHANGED stages
  /\ UNCHANGED <<req, timeout, memory, consoleOutput, vm, hooked, started, measured,
                 outcome, running, timers, runs, emitted, logFault>>

\* Lines 90-98: the sandbox is created, the listener registered, the start
\* time read.
BuildContext(r) ==
  /\ pc[r] = "building"
  /\ running = r
  /\ vm' = vm @@ (r :> CreateSandbox(timeout[r], memory[r]))
  /\ hooked' = hooked \cup {r}
  /\ started' = started \cup {r}
  /\ pc' = [pc EXCEPT ![r] = "executing"]
  /\ stages' = [stages EXCEPT ![r] = Append(@, "Executing")]
  /\ UNCHANGED <<req, timeout, memory, consoleOutput, measured, thrown, outcome,
                 running, timers, runs, emitted, logFault>>

\* vm.run(script) (lines 101-102).  NodeVM runs the script synchronously on
\* the host's thread and has no timeout (vm2 implements the timeout option
\* for VM only), so a script that loops forever never returns and the event
\* loop stays inside this call.
VmRun(r) ==
  /\ pc[r] = "executing"
  /\ running = r
  /\ runs' = [runs EXCEPT ![r] = @ + 1]
  /\ consoleOutput' = EmitAll(consoleOutput, hooked, r, req[r].code.writes)
  /\ emitted' = [emitted EXCEPT ![r] = @ \o req[r].code.writes]
  /\ timers' = [timers EXCEPT ![r] = req[r].code.late]
  /\ IF req[r].code.end = "returns"
       THEN /\ pc' = [pc EXCEPT ![r] = "awaiting"]
            /\ running' = 0
            /\ UNCHANGED thrown
       ELSE IF req[r].code.end = "throws"
       THEN /\ pc' = [pc EXCEPT ![r] = "catch"]
            /\ thrown' = [thrown EXCEPT ![r] = req[r].code.thrown]
            /\ UNCHANGED running
       ELSE /\ pc' = [pc EXCEPT ![r] = "spinning"]
            /\ UNCHANGED <<thrown, running>>
  /\ UNCHANGED <<req, timeout, memory, vm, hooked, started, measured, outcome,
                 stages, logFault>>

\* The continuation of the await (lines 104-119) and of the handler's await
\* (lines 223-230): the time is measured, logger.info is called; when it
\* returns the response is built, when it throws control goes to the catch.
Resume(r) ==
  /\ pc[r] = "awaiting"
  /\ running = 0
  /\ measured' = measured \cup {r}
  /\ \E logged \in BOOLEAN :
       IF logged
         THEN /\ outcome' = [outcome EXCEPT ![r] = Success(consoleOutput[r])]
              /\ pc' = [pc EXCEPT ![r] = "done"]
              /\ stages' = [stages EXCEPT ![r] = Append(@, "Responding")]
              /\ UNCHANGED <<thrown, running, logFault>>
         ELSE /\ thrown' = [thrown EXCEPT ![r] = ErrorObj("logger.info failed")]
              /\ logFault' = logFault \cup {r}
              /\ pc' = [pc EXCEPT ![r] = "catch"]
              /\ running' = r
              /\ UNCHANGED <<outcome, stages>>
  /\ UNCHANGED <<req, timeout, memory, consoleOutput, vm, hooked, started, timers,
                 runs, emitted>>

\* The catch block (lines 120-130): error.message is read (a TypeError when
\* the caught value is null), logger.error is called, an McpError with code
\* InternalError is thrown.
Catch(r) ==
  /\ pc[r] = "catch"
  /\ running = r
  /\ IF thrown[r].kind = "null"
       THEN /\ outcome' = [outcome EXCEPT ![r] = Raw("TypeError")]
            /\ UNCHANGED logFault
       ELSE \E logged \in BOOLEAN :
              IF logged
                THEN /\ outcome' = [outcome EXCEPT ![r] =
                          Typed(McpError("InternalError",
                                         "Erreur d'exécution: " \o thrown[r].message))]
                     /\ UNCHANGED logFault
                ELSE /\ outcome' = [outcome EXCEPT ![r] = Raw("logger.error failed")]
                     /\ logFault' = logFault \cup {r}
  /\ pc' = [pc EXCEPT ![r] = "done"]
  /\ running' = 0
  /\ stages' = [stages EXCEPT ![r] = Append(@, "Rejected")]
  /\ UNCHANGED <<req, timeout, memory, consoleOutput, vm, hooked, started, measured,
                 thrown, timers, runs, emitted>>

\* A timer the script set fires once no callback and no continuation is
\* pending, and its console call is emitted by that script's vm.
TimerFires(r) ==
  /\ running = 0
  /\ \A q \in Requests : pc[q] # "awaiting"
  /\ timers[r] # <<>>
  /\ consoleOutput' = Emit(consoleOutput, hooked, r, Head(timers[r]))
  /\ emitted' = [emitted EXCEPT ![r] = Append(@, Head(timers[r]))]
  /\ timers' = [timers EXCEPT ![r] = Tail(@)]
  /\ UNCHANGED <<pc, req, timeout, memory, vm, hooked, started, measured, thrown,
                 outcome, running, stages, runs, logFault>>

Next ==
  \E r \in Requests :
    \/ \E q \in ToolRequests : CallTool(r, q)
    \/ Validate(r)
    \/ BuildContext(r)
    \/ VmRun(r)
    \/ Resume(r)
    \/ Catch(r)
    \/ TimerFires(r)

Spec == Init /\ [][Next]_vars

\* The event loop runs every callback and continuation that is ready; the
\* client is not obliged to send a request.
Fairness ==
  \A r \in Requests :
    /\ WF_vars(Validate(r))
    /\ WF_vars(BuildContext(r))
    /\ WF_vars(VmRun(r))
    /\ WF_vars(Resume(r))
    /\ WF_vars(Catch(r))
    /\ WF_vars(TimerFires(r))

LiveSpec == Init /\ [][Next]_vars /\ Fairness

TypeOK ==
  /\ pc \in [Requests -> {"idle", "validating", "building", "executing", "spinning",
                          "awaiting", "catch", "done"}]
  /\ running \in 0..NumRequests
  /\ DOMAIN vm \subseteq Requests

------------------------------------------------------------------------------
\* Vocabulary of the claims, stated on the request and not on the handler.

\* The request reached executeCode (the handler's own checks passed).
Executed(r) == pc[r] # "idle" /\ req[r].name = "execute_js" /\ req[r].codeIsString

\* The code does not parse, or contains a forbidden name as a substring.
ComputedFailure(code) ==
  \/ code.syntaxError # ""
  \/ \E i \in 1..Len(FORBIDDEN_PATTERNS) : Includes(code.text, FORBIDDEN_PATTERNS[i])

\* The programs of the catalogue for which that is the case: "1+" does not
\* parse, "require('process')" contains require and process.
FailingPrograms == {P_req, P_syn}

FailsValidation(code) == code \in FailingPrograms

\* A supplied timeout or memory lies outside the bounds of the inputSchema.
OutOfRange(q) ==
  \/ q.timeout.type = "number" /\ (q.timeout.val < SchemaMinTimeout \/ q.timeout.val > SchemaMaxTimeout)
  \/ q.memory.type = "number" /\ (q.memory.val < SchemaMinMemory \/ q.memory.val > SchemaMaxMemory)

\* The supplied value, or the default when the field is absent.
EffectiveTimeout(q) == IF q.timeout.type = "number" THEN q.timeout.val ELSE 5000

EffectiveMemory(q) == IF q.memory.type = "number" THEN q.memory.val ELSE 52428800

\* Rank of a stage in Received, Validating, Building-Context, Executing,
\* Responding; a rejection ends the request at any point.
Rank(stage) ==
  CASE stage = "Received" -> 1
    [] stage = "Validating" -> 2
    [] stage = "BuildingContext" -> 3
    [] stage = "Executing" -> 4
    [] stage = "Responding" -> 5
    [] stage = "Rejected" -> 6

Ordered(seq) == \A i, j \in 1..Len(seq) : i < j => Rank(seq[i]) < Rank(seq[j])

\* The lines of the calls of console.log among the console calls ws.
RECURSIVE LogLines(_)
LogLines(ws) ==
  IF ws = <<>> THEN <<>>
  ELSE (IF Head(ws).method = "log" THEN <<JoinArgs(Head(ws).args)>> ELSE <<>>)
         \o LogLines(Tail(ws))

------------------------------------------------------------------------------
\* C1: every request whose code fails validation (it does not parse, or it
\* contains a forbidden name) ends with a typed error whose code is
\* InvalidRequest.  Stated for the runs in which no logger call fails.
C1_ValidationFailureIsInvalidRequest ==
  \A r \in Requests :
    (pc[r] = "done" /\ Executed(r) /\ FailsValidation(req[r].code) /\ r \notin logFault)
      => (outcome[r].kind = "McpError" /\ outcome[r].code = "InvalidRequest")

\* C2: a request whose timeout or memory is out of range never has a sandbox
\* created, never reaches the executing stage and never gets a success
\* response.
C2_OutOfRangeNeverExecutes ==
  \A r \in Requests :
    (pc[r] # "idle" /\ OutOfRange(req[r]))
      => /\ r \notin DOMAIN vm
         /\ pc[r] \notin {"executing", "spinning", "awaiting"}
         /\ runs[r] = 0
         /\ outcome[r].kind # "success"

\* C3: validation is a gate before execution: a request whose code fails
\* validation never has a sandbox, a console listener, a start time, a
\* measurement, a run or a success response; and any request whose sandbox
\* exists or ran passed validation, with the Validating stage before the
\* Executing stage.
C3_ValidationGate ==
  \A r \in Requests :
    Executed(r) =>
      LET fails == FailsValidation(req[r].code) IN
        /\ fails
             => /\ r \notin DOMAIN vm
                /\ r \notin hooked
                /\ r \notin started
                /\ r \notin measured
                /\ runs[r] = 0
                /\ outcome[r].kind # "success"
        /\ (r \in DOMAIN vm \/ runs[r] > 0 \/ pc[r] \in {"executing", "spinning", "awaiting"})
             => /\ ~fails
                /\ \E i, j \in 1..Len(stages[r]) :
                     i < j /\ stages[r][i] = "Validating" /\ stages[r][j] = "Executing"

\* A request whose code contains a forbidden name was rejected while another
\* request's sandbox ran.
C3_Witness ==
  \E a, b \in Requests :
    /\ pc[a] = "done" /\ Executed(a) /\ FailsValidation(req[a].code)
    /\ ComputedFailure(req[a].code)
    /\ Includes(req[a].code.text, "require")
    /\ outcome[a].kind = "McpError"
    /\ runs[b] = 1

\* C4: every request that reaches the executing stage eventually returns,
\* and when its script never completes the caller gets an InternalError and
\* no console output.
C4_EveryRequestReturns ==
  \A r \in Requests :
    (pc[r] = "executing")
      ~> (pc[r] = "done"
          /\ (req[r].code.end = "spins"
                => outcome[r].kind = "McpError" /\ outcome[r].code = "InternalError"
                   /\ outcome[r].console = <<>>))

C6_LogFailureKeepsResponse ==
  \A r \in Requests :
    (pc[r] = "done" /\ r \in logFault)
      => IF r \in measured
           THEN outcome[r].kind = "success"
           ELSE outcome[r].kind = "McpError"

\* C7: every request ends in a success response or in a typed error whose
\* code is InvalidRequest, InternalError or MethodNotFound.  Stated for the
\* runs in which no logger call fails.
C7_EveryFaultIsTyped ==
  \A r \in Requests :
    (pc[r] = "done" /\ r \notin logFault)
      => \/ outcome[r].kind = "success"
         \/ /\ outcome[r].kind = "McpError"
            /\ outcome[r].code \in {"InvalidRequest", "InternalError", "MethodNotFound"}

\* C8: the options of every sandbox created carry the request's effective
\* timeout and its effective memory bound.
C8_ContextCarriesLimits ==
  \A r \in DOMAIN vm :
    /\ vm[r].timeout = EffectiveTimeout(req[r])
    /\ "memory" \in DOMAIN vm[r]
    /\ vm[r].memory = EffectiveMemory(req[r])

\* C9: with requests interleaved at their awaits, the console buffer of each
\* request holds exactly the lines of its own script's console.log calls, in
\* order, and a success response holds a prefix of them.
C9_ConsoleBuffersAreIsolated ==
  \A r \in Requests :
    pc[r] # "idle"
      => /\ consoleOutput[r] = LogLines(emitted[r])
         /\ (outcome[r].kind = "success"
               => /\ Len(outcome[r].console) <= Len(LogLines(emitted[r]))
                  /\ outcome[r].console =
                       SubSeq(LogLines(emitted[r]), 1, Len(outcome[r].console)))

\* Two requests suspended at their awaits at once, each with console lines
\* of its own.
C9_Witness ==
  \E a, b \in Requests :
    /\ a # b
    /\ pc[a] = "awaiting" /\ pc[b] = "awaiting"
    /\ emitted[a] # <<>> /\ emitted[b] # <<>>
    /\ emitted[a] # emitted[b]

\* C10: the stages of a request follow the order Received, Validating,
\* Building-Context, Executing, Responding, the sandbox runs at most once,
\* and the request ends in a success response or a typed error.  Stated for
\* the runs in which no logger call fails.
C10_StagesInOrderOneResponse ==
  \A r \in Requests :
    /\ Ordered(stages[r])
    /\ runs[r] <= 1
    /\ (pc[r] = "done" /\ r \notin logFault)
         => outcome[r].kind \in {"success", "McpError"}

====
